---- MODULE Spec2Model ----
(***************************************************************************)
(* Business Central Environment Inspector (streamlit_app.py).              *)
(*                                                                         *)
(* Every user interaction re-executes the script from the top (a "run"):   *)
(* the widgets are read, the token is acquired (button branch, then silent *)
(* refresh), and try_endpoints may then be invoked.  get_token is memoised *)
(* by st.cache_data(ttl=60, max_entries=16); that cache is process-wide    *)
(* and, with the widgets of each browser session, all that survives a run. *)
(* Runs are taken one at a time.                                           *)
(*                                                                         *)
(* Text is a sequence of parts: a credential is a sequence of characters,  *)
(* a message is the sequence of the pieces the f-string concatenates.      *)
(***************************************************************************)
EXTENDS Integers, Sequences, FiniteSets, TLC

VARIABLES
    widgets,        \* per browser session, what its sidebar widgets hold
    pc,             \* position of the script run
    tenant_id,      \* st.text_input "Tenant (Directory) ID", as read by this run
    client_id,      \* st.text_input "Client ID", as read by this run
    client_secret,  \* st.text_input "Client Secret", as read by this run
    auth_button,    \* st.button "Get Token / Refresh", as read by this run
    timeout_s,      \* st.number_input "HTTP Timeout (seconds)", as read by this run
    token_ok,       \* module global token_ok
    access_token,   \* module global access_token
    cache,          \* st.cache_data store of get_token, least recently used first
    calls,          \* get_token calls of this run: arguments, result, POSTs issued
    posts,          \* token POSTs issued during this run
    memo,           \* history: per argument triple, the result last stored, its age,
                    \* and whether a store has pushed it out of the full cache since
    endpoints,      \* argument of the running try_endpoints invocation
    remote,         \* what requests.get meets at each candidate during this invocation
    idx,            \* loop position in endpoints (1-based)
    gets,           \* GETs issued during this try_endpoints invocation
    probe           \* outcome of the try_endpoints invocation

vars == <<widgets, pc, tenant_id, client_id, client_secret, auth_button, timeout_s,
          token_ok, access_token, cache, calls, posts, memo,
          endpoints, remote, idx, gets, probe>>

runInputs == <<widgets, tenant_id, client_id, client_secret, auth_button, timeout_s>>
tokenVars == <<token_ok, access_token>>
cacheVars == <<cache, calls, posts, memo>>
probeVars == <<endpoints, remote, idx, gets, probe>>

----------------------------------------------------------------------------
(* Program constants *)

ttl == 60
max_entries == 16
post_timeout == 30
timeout_min == 5
timeout_default == 20
timeout_max == 60

(* Bounds of the model *)

MaxEndpoints == 3
MaxSecretLen == 16

----------------------------------------------------------------------------
(* Text helpers *)

IsSpace(ch) == ch = " "

RECURSIVE LStrip(_)
LStrip(s) == IF s # <<>> /\ IsSpace(Head(s)) THEN LStrip(Tail(s)) ELSE s

RECURSIVE RStrip(_)
RStrip(s) ==
    IF s # <<>> /\ IsSpace(s[Len(s)]) THEN RStrip(SubSeq(s, 1, Len(s) - 1)) ELSE s

\* str.strip()
Strip(s) == RStrip(LStrip(s))

\* truth value of a str
Truthy(s) == s # <<>>

Digit(d) == <<"0", "1", "2", "3", "4", "5", "6", "7", "8", "9">>[d + 1]

\* decimal rendering of an int by an f-string
RECURSIVE Str(_)
Str(n) == IF n < 10 THEN <<Digit(n)>> ELSE Str(n \div 10) \o <<Digit(n % 10)>>

\* sub in msg, for sequences of parts
Contains(msg, sub) ==
    \E i \in 0..(Len(msg) - Len(sub)) :
        \A j \in 1..Len(sub) : msg[i + j] = sub[j]

----------------------------------------------------------------------------
(* Response bodies and r.json() *)

BodyTokenA == "{\"access_token\":\"tokA\"}"
BodyTokenB == "{\"access_token\":\"tokB\"}"
BodyNoToken == "{\"token_type\":\"Bearer\"}"
BodyInvalidClient == "{\"error\":\"invalid_client\"}"
BodyArray == "[]"
BodyCompanies == "{\"value\":[]}"
BodyHtml == "<html>Bad Gateway</html>"

NotJson == [type |-> "error", fields |-> <<>>]

\* r.json(): the decoded document, or NotJson when decoding raises
ParseJson(text) ==
    CASE text = BodyTokenA -> [type |-> "object", fields |-> [access_token |-> <<"tokA">>]]
      [] text = BodyTokenB -> [type |-> "object", fields |-> [access_token |-> <<"tokB">>]]
      [] text = BodyNoToken -> [type |-> "object", fields |-> [token_type |-> <<"Bearer">>]]
      [] text = BodyInvalidClient ->
            [type |-> "object", fields |-> [error |-> <<"invalid_client">>]]
      [] text = BodyCompanies -> [type |-> "object", fields |-> [value |-> <<>>]]
      [] text = BodyArray -> [type |-> "array", fields |-> <<>>]
      [] OTHER -> NotJson

HttpReply(status, text) == [kind |-> "http", status |-> status, text |-> text]
Raised(what) == [kind |-> "exception", status |-> 0, text |-> what]

----------------------------------------------------------------------------
(* get_token: the decorated function's body *)

MissingMsg == <<"Missing tenant/client/secret.">>
JsonDecodeErrorText == "Expecting value: line 1 column 1 (char 0)"
AttributeErrorText == "'list' object has no attribute 'get'"

Result(ok, payload) == [ok |-> ok, payload |-> payload]

\* a guard that forgets the secret
HaveCredentialsNoSecret(t, c, s) == Truthy(t) /\ Truthy(c)

\* credentials guard of get_token
HaveCredentials(t, c, s) == Truthy(t) /\ Truthy(c) /\ Truthy(s)

\* r.json()["access_token"]: a missing field raises KeyError
ExtractTokenStrict(text) ==
    LET js == ParseJson(text)
    IN  IF js.type = "error"
            THEN Result(FALSE, <<"Token exception: ", JsonDecodeErrorText>>)
        ELSE IF js.type # "object"
            THEN Result(FALSE, <<"Token exception: ", AttributeErrorText>>)
        ELSE IF "access_token" \in DOMAIN js.fields
            THEN Result(TRUE, js.fields.access_token)
        ELSE Result(FALSE, <<"Token exception: ", "'access_token'">>)

\* r.json().get("access_token", "") on a 200 reply
ExtractToken(text) ==
    LET js == ParseJson(text)
    IN  IF js.type = "error"
            THEN Result(FALSE, <<"Token exception: ", JsonDecodeErrorText>>)
        ELSE IF js.type # "object"
            THEN Result(FALSE, <<"Token exception: ", AttributeErrorText>>)
        ELSE IF "access_token" \in DOMAIN js.fields
            THEN Result(TRUE, js.fields.access_token)
        ELSE Result(TRUE, <<>>)

\* f"Token error {r.status_code}: {r.text}"
TokenErrorMsg(status, text) == <<"Token error ">> \o Str(status) \o <<": ", text>>

\* a body that takes every 2xx status for a token
OnPostReplyAny2xx(reply) ==
    IF reply.kind = "exception"
        THEN Result(FALSE, <<"Token exception: ", reply.text>>)
    ELSE IF 200 <= reply.status /\ reply.status < 300
        THEN ExtractToken(reply.text)
    ELSE Result(FALSE, TokenErrorMsg(reply.status, reply.text))

\* what get_token makes of the outcome of requests.post
OnPostReply(reply) ==
    IF reply.kind = "exception"
        THEN Result(FALSE, <<"Token exception: ", reply.text>>)
    ELSE IF reply.status = 200
        THEN ExtractToken(reply.text)
    ELSE Result(FALSE, TokenErrorMsg(reply.status, reply.text))

\* whether the body of get_token reaches requests.post
IssuesPost(t, c, s) == HaveCredentials(t, c, s)

\* the body of get_token, given what requests.post would answer
GetTokenBody(t, c, s, reply) ==
    IF ~HaveCredentials(t, c, s) THEN Result(FALSE, MissingMsg) ELSE OnPostReply(reply)

\* the request get_token hands to requests.post
PostRequest(t) == [tenant |-> t, timeout |-> post_timeout]

----------------------------------------------------------------------------
(* st.cache_data(ttl=60, max_entries=16): a TTL cache with LRU eviction.    *)
(* An entry lives ttl seconds from the moment it is stored; Tick removes    *)
(* the entries whose time is up, so every entry present is live.            *)

Key(t, c, s) == <<t, c, s>>

CacheKeys(c) == {c[i].key : i \in DOMAIN c}

CacheIndex(c, key) == CHOOSE i \in DOMAIN c : c[i].key = key

CacheHit(c, key) == key \in CacheKeys(c)

RemoveAt(c, i) == SubSeq(c, 1, i - 1) \o SubSeq(c, i + 1, Len(c))

\* a read marks the entry most recently used
CacheTouch(c, key) ==
    LET i == CacheIndex(c, key) IN Append(RemoveAt(c, i), c[i])

\* whether storing one more entry pushes the least recently used one out
CacheFull(c) == Len(c) >= max_entries

\* a computed value is stored with a full time to live
CacheStore(c, key, value) ==
    Append(IF CacheFull(c) THEN Tail(c) ELSE c,
           [key |-> key, value |-> value, left |-> ttl])

\* a cache whose entries never expire
CacheAfterNoExpiry(c, d) == c

\* entries after d seconds
CacheAfter(c, d) ==
    LET aged == [i \in DOMAIN c |-> [c[i] EXCEPT !.left = c[i].left - d]]
    IN  SelectSeq(aged, LAMBDA e : e.left > 0)

\* a decorator that keeps successes only
CacheableOnlySuccess(result) == result.ok

\* whether a result returned by the body is kept by the decorator
Cacheable(result) == TRUE

----------------------------------------------------------------------------
(* One call of the decorated get_token *)

NoReply == [kind |-> "none", status |-> 0, text |-> ""]

\* history of stored results: the result just stored starts its window, and the
\* entry the store pushed out of a full cache is marked
MemoStore(m, c, key, value) ==
    [k \in DOMAIN m \cup {key} |->
        IF k = key THEN [value |-> value, age |-> 0, evicted |-> FALSE]
        ELSE IF CacheFull(c) /\ k = c[1].key THEN [m[k] EXCEPT !.evicted = TRUE]
        ELSE m[k]]

\* history after d seconds: an age of ttl stands for a window that is over
MemoAfter(m, d) ==
    [k \in DOMAIN m |-> [m[k] EXCEPT !.age = IF @ + d < ttl THEN @ + d ELSE ttl]]

\* token_ok, access_token = get_token(t, c, s); reply is what requests.post
\* answers if the body runs that far
CallGetToken(t, c, s, reply) ==
    LET key == Key(t, c, s)
        hit == CacheHit(cache, key)
        result == IF hit THEN cache[CacheIndex(cache, key)].value
                         ELSE GetTokenBody(t, c, s, reply)
        posted == ~hit /\ IssuesPost(t, c, s)
        stored == ~hit /\ Cacheable(result)
    IN  /\ token_ok' = result.ok
        /\ access_token' = result.payload
        /\ cache' = IF hit THEN CacheTouch(cache, key)
                    ELSE IF stored THEN CacheStore(cache, key, result)
                    ELSE cache
        /\ memo' = IF stored THEN MemoStore(memo, cache, key, result) ELSE memo
        /\ calls' = Append(calls, [args |-> key, result |-> result, posted |-> posted,
                                   reply |-> IF posted THEN reply ELSE NoReply])
        /\ posts' = IF posted THEN Append(posts, PostRequest(t)) ELSE posts

----------------------------------------------------------------------------
(* The script run: widgets and token acquisition *)

Timeouts == {timeout_min, timeout_default, timeout_max}

NoData == [type |-> "none", fields |-> <<>>, text |-> ""]
NoProbe == [state |-> "none", label |-> <<>>, url |-> <<>>, data |-> NoData]

Sessions == {"operator", "typist"}

Widgets(t, c, s, to) == [tenant |-> t, client |-> c, secret |-> s, timeout |-> to]

Init ==
    /\ widgets = [u \in Sessions |-> Widgets(<<>>, <<>>, <<>>, timeout_default)]
    /\ pc = "idle"
    /\ tenant_id = <<>>
    /\ client_id = <<>>
    /\ client_secret = <<>>
    /\ auth_button = FALSE
    /\ timeout_s = timeout_default
    /\ token_ok = FALSE
    /\ access_token = <<>>
    /\ cache = <<>>
    /\ calls = <<>>
    /\ posts = <<>>
    /\ memo = <<>>
    /\ endpoints = <<>>
    /\ remote = <<>>
    /\ idx = 0
    /\ gets = <<>>
    /\ probe = NoProbe

\* an interaction in session u, which leaves its widgets holding t, c, s, to and
\* its button pressed or not, starts a run: the widgets are read, the globals reset
StartRun(u, t, c, s, b, to) ==
    /\ pc = "idle"
    /\ widgets' = [widgets EXCEPT ![u] = Widgets(t, c, s, to)]
    /\ pc' = "button"
    /\ tenant_id' = t
    /\ client_id' = c
    /\ client_secret' = s
    /\ auth_button' = b
    /\ timeout_s' = to
    /\ token_ok' = FALSE
    /\ access_token' = <<>>
    /\ calls' = <<>>
    /\ posts' = <<>>
    /\ endpoints' = <<>>
    /\ remote' = <<>>
    /\ idx' = 0
    /\ gets' = <<>>
    /\ probe' = NoProbe
    /\ UNCHANGED <<cache, memo>>

\* if auth_button: get_token(...), st.success / st.error
ButtonStep(reply) ==
    /\ pc = "button"
    /\ pc' = "refresh"
    /\ IF auth_button
          THEN CallGetToken(Strip(tenant_id), Strip(client_id), client_secret, reply)
          ELSE UNCHANGED <<tokenVars, cacheVars>>
    /\ UNCHANGED <<runInputs, probeVars>>

\* condition of the silent refresh
WantsRefresh == HaveCredentials(tenant_id, client_id, client_secret) /\ ~token_ok

\* if (tenant_id and client_id and client_secret) and not token_ok: get_token(...)
RefreshStep(reply) ==
    /\ pc = "refresh"
    /\ pc' = "ready"
    /\ IF WantsRefresh
          THEN CallGetToken(Strip(tenant_id), Strip(client_id), client_secret, reply)
          ELSE UNCHANGED <<tokenVars, cacheVars>>
    /\ UNCHANGED <<runInputs, probeVars>>

\* the run is over (normally, or aborted by an exception): the script's globals
\* and the records of its requests are gone, the widgets and the cache stay
EndRun ==
    /\ pc \in {"ready", "done", "aborted"}
    /\ pc' = "idle"
    /\ tenant_id' = <<>>
    /\ client_id' = <<>>
    /\ client_secret' = <<>>
    /\ auth_button' = FALSE
    /\ timeout_s' = timeout_default
    /\ token_ok' = FALSE
    /\ access_token' = <<>>
    /\ calls' = <<>>
    /\ posts' = <<>>
    /\ endpoints' = <<>>
    /\ remote' = <<>>
    /\ idx' = 0
    /\ gets' = <<>>
    /\ probe' = NoProbe
    /\ UNCHANGED <<widgets, cache, memo>>

TickAmounts == {ttl - 1, ttl}

\* time passes between two interactions
Tick(d) ==
    /\ pc = "idle"
    /\ cache' = CacheAfter(cache, d)
    /\ memo' = MemoAfter(memo, d)
    /\ UNCHANGED <<pc, runInputs, tokenVars, calls, posts, probeVars>>

----------------------------------------------------------------------------
(* auth_get and try_endpoints *)

\* js = r.json(), or r.text when decoding raises
Decode(text) ==
    LET js == ParseJson(text)
    IN  IF js.type = "error" THEN [type |-> "text", fields |-> <<>>, text |-> text]
        ELSE [type |-> js.type, fields |-> js.fields, text |-> ""]

\* a test that takes 200 alone for success
IsSuccessOnly200(code) == code = 200

\* 200 <= code < 300
IsSuccess(code) == 200 <= code /\ code < 300

Pending == 0
RaisedStatus == -1

\* the request auth_get hands to requests.get
AuthGetRequest(i, url) ==
    [cand |-> i, url |-> url, authorization |-> <<"Bearer ">> \o access_token,
     accept |-> "application/json", timeout |-> timeout_s, status |-> Pending]

\* a return that hands back the body as text, undecoded
ReturnValueRawBody(i) ==
    [state |-> "found", label |-> endpoints[i][1], url |-> endpoints[i][2],
     data |-> [type |-> "text", fields |-> <<>>, text |-> remote[i].text]]

\* return {"label": label, "url": url, "data": js} for candidate i
ReturnValue(i) ==
    [state |-> "found", label |-> endpoints[i][1], url |-> endpoints[i][2],
     data |-> Decode(remote[i].text)]

\* a loop that ends by raising when nothing was found
LoopFallThroughRaises == [probe EXCEPT !.state = "raised"]

\* the loop ends and the function falls off its end: None comes back
LoopFallThrough == [probe EXCEPT !.state = "absent"]

\* try_endpoints(eps) is called while the remote API is in a state where the
\* GET of candidate i meets rem[i]; one invocation per run is followed
TryEndpoints(eps, rem) ==
    /\ pc = "ready"
    /\ pc' = "loop"
    /\ endpoints' = eps
    /\ remote' = rem
    /\ idx' = 1
    /\ gets' = <<>>
    /\ probe' = [NoProbe EXCEPT !.state = "running"]
    /\ UNCHANGED <<runInputs, tokenVars, cacheVars>>

\* for label, url in endpoints: auth_get(url) issues requests.get
AuthGetSend ==
    /\ pc = "loop"
    /\ idx <= Len(endpoints)
    /\ pc' = "get"
    /\ gets' = Append(gets, AuthGetRequest(idx, endpoints[idx][2]))
    /\ UNCHANGED <<runInputs, tokenVars, cacheVars, endpoints, remote, idx, probe>>

\* requests.get raises: nothing catches it in auth_get or try_endpoints
AuthGetRaise ==
    /\ pc = "get"
    /\ remote[idx].kind = "exception"
    /\ pc' = "aborted"
    /\ gets' = [gets EXCEPT ![Len(gets)].status = RaisedStatus]
    /\ probe' = [probe EXCEPT !.state = "raised"]
    /\ UNCHANGED <<runInputs, tokenVars, cacheVars, endpoints, remote, idx>>

\* requests.get answers: return on a 2xx status, else go on with the next candidate
AuthGetReply ==
    /\ pc = "get"
    /\ remote[idx].kind = "http"
    /\ gets' = [gets EXCEPT ![Len(gets)].status = remote[idx].status]
    /\ IF IsSuccess(remote[idx].status)
          THEN /\ pc' = "done"
               /\ probe' = ReturnValue(idx)
               /\ idx' = idx
          ELSE /\ pc' = "loop"
               /\ probe' = probe
               /\ idx' = idx + 1
    /\ UNCHANGED <<runInputs, tokenVars, cacheVars, endpoints, remote>>

\* the loop is exhausted: the function ends without a return statement (None)
LoopExit ==
    /\ pc = "loop"
    /\ idx > Len(endpoints)
    /\ pc' = "done"
    /\ probe' = LoopFallThrough
    /\ UNCHANGED <<runInputs, tokenVars, cacheVars, endpoints, remote, idx, gets>>

----------------------------------------------------------------------------
(* Inputs *)

ValidTenant == <<"t">>
ValidClient == <<"c">>
ValidSecret == <<"s">>

\* credential widgets with every field filled, padded or not
FilledInputs ==
    { <<ValidTenant, ValidClient, ValidSecret>>,
      <<<<" ", "t", " ">>, ValidClient, ValidSecret>> }

\* credential widgets with one field empty, or blank
LackingInputs ==
    { <<<<>>, ValidClient, ValidSecret>>, <<<<" ">>, ValidClient, ValidSecret>>,
      <<ValidTenant, <<>>, ValidSecret>>, <<ValidTenant, ValidClient, <<>>>> }

\* what the token endpoint may answer, or how requests.post may fail
TokenReplies ==
    { HttpReply(200, BodyTokenA), HttpReply(200, BodyNoToken), HttpReply(200, BodyArray),
      HttpReply(200, BodyHtml), HttpReply(201, BodyTokenA),
      HttpReply(401, BodyInvalidClient), Raised("Read timed out.") }

\* what the resource API may answer to a GET, or how requests.get may fail
GetOutcomes ==
    { HttpReply(200, BodyCompanies), HttpReply(299, BodyHtml), HttpReply(300, BodyHtml),
      HttpReply(404, BodyHtml), Raised("Read timed out.") }

\* the candidate lists try_endpoints is called with
Candidate(i) == << <<"label", i>>, <<"url", i>> >>
EndpointLists == { [i \in 1..k |-> Candidate(i)] : k \in 0..MaxEndpoints }

----------------------------------------------------------------------------
(* The script as a whole *)

TokenSteps ==
    \/ \E reply \in TokenReplies : ButtonStep(reply)
    \/ \E reply \in TokenReplies : RefreshStep(reply)
    \/ EndRun
    \/ \E d \in TickAmounts : Tick(d)

ProbeSteps ==
    \/ \E eps \in EndpointLists : \E rem \in [DOMAIN eps -> GetOutcomes] :
          TryEndpoints(eps, rem)
    \/ AuthGetSend
    \/ AuthGetRaise
    \/ AuthGetReply
    \/ LoopExit

Next ==
    \/ \E b \in BOOLEAN, to \in Timeouts :
          StartRun("operator", ValidTenant, ValidClient, ValidSecret, b, to)
    \/ TokenSteps
    \/ ProbeSteps

Spec == Init /\ [][Next]_vars

(* Token acquisition alone, over more credential inputs *)

NextToken ==
    \/ \E cr \in FilledInputs \cup LackingInputs, b \in BOOLEAN :
          StartRun("operator", cr[1], cr[2], cr[3], b, timeout_default)
    \/ TokenSteps

SpecToken == Init /\ [][NextToken]_vars

(* Token acquisition by two sessions of one process: the operator holds the *)
(* valid credentials; the typist has a blank tenant widget and types a secret *)
(* one character at a time.                                                  *)

BlankTenant == <<" ">>

\* the typist's secret widget after the next interaction: as it stands, or with
\* one more character typed
TypedSecrets ==
    {widgets["typist"].secret} \cup
        IF Len(widgets["typist"].secret) < MaxSecretLen
            THEN {Append(widgets["typist"].secret, "s")}
            ELSE {}

\* what the token endpoint may answer to the operator
OperatorReplies ==
    {HttpReply(200, BodyTokenA), HttpReply(200, BodyTokenB), Raised("Read timed out.")}

NextCache ==
    \/ \E b \in BOOLEAN :
          StartRun("operator", ValidTenant, ValidClient, ValidSecret, b, timeout_default)
    \/ \E s \in TypedSecrets :
          StartRun("typist", BlankTenant, ValidClient, s, FALSE, timeout_default)
    \/ \E reply \in OperatorReplies : ButtonStep(reply)
    \/ \E reply \in OperatorReplies : RefreshStep(reply)
    \/ EndRun
    \/ \E d \in TickAmounts : Tick(d)

SpecCache == Init /\ [][NextCache]_vars

----------------------------------------------------------------------------
(* Properties of get_token *)

Calls == {calls[i] : i \in DOMAIN calls}

SomeFieldEmpty(args) == \E j \in 1..3 : args[j] = <<>>

\* the calls of this run that reached the token endpoint and got an HTTP reply
Answered == {call \in Calls : call.posted /\ call.reply.kind = "http"}

\* C1: a get_token call with at least one empty credential returns failure with
\* a diagnostic message, and issues no POST to the token endpoint.
C1_MissingCredentialsNoPost ==
    /\ \A call \in Calls :
          SomeFieldEmpty(call.args) =>
              /\ ~call.result.ok
              /\ call.result.payload # <<>>
              /\ ~call.posted
    /\ (\A call \in Calls : SomeFieldEmpty(call.args)) => posts = <<>>

\* a blank tenant widget passes the refresh condition and reaches get_token empty
C1_Witness ==
    /\ pc = "ready"
    /\ ~auth_button
    /\ tenant_id = <<" ">>
    /\ Len(calls) = 1
    /\ calls[1].args[1] = <<>>
    /\ calls[1].result = Result(FALSE, MissingMsg)
    /\ posts = <<>>

\* C5 as stated: every 200 reply makes get_token return success with the
\* access_token field of the body, or the empty string when the field is absent.
C5_Original ==
    \A call \in Answered :
        call.reply.status = 200 =>
            /\ call.result.ok
            /\ LET js == ParseJson(call.reply.text)
               IN  call.result.payload =
                       IF js.type = "object" /\ "access_token" \in DOMAIN js.fields
                           THEN js.fields.access_token
                           ELSE <<>>

\* C5 amended: a 200 reply whose body decodes to a JSON object makes get_token
\* return success with the access_token field, or the empty string when the
\* field is absent; a 200 reply whose body is not a JSON object makes it return
\* failure with a "Token exception: ..." message.
C5_TokenFromJsonObject ==
    \A call \in Answered :
        call.reply.status = 200 =>
            LET js == ParseJson(call.reply.text)
            IN  IF js.type = "object"
                    THEN /\ call.result.ok
                         /\ call.result.payload =
                                IF "access_token" \in DOMAIN js.fields
                                    THEN js.fields.access_token
                                    ELSE <<>>
                    ELSE /\ ~call.result.ok
                         /\ call.result.payload[1] = "Token exception: "

\* a 200 reply without the field: success with the empty string
C5_Witness ==
    \E call \in Answered :
        /\ call.reply = HttpReply(200, BodyNoToken)
        /\ ~SomeFieldEmpty(call.args)
        /\ call.result = Result(TRUE, <<>>)
        /\ token_ok /\ access_token = <<>>

\* C6: every reply with a status other than 200, other 2xx included, makes
\* get_token return failure with a message that holds the status code and the
\* raw body.
C6_Non200IsFailure ==
    \A call \in Answered :
        call.reply.status # 200 =>
            /\ ~call.result.ok
            /\ Contains(call.result.payload, Str(call.reply.status))
            /\ Contains(call.result.payload, <<call.reply.text>>)

\* 401 invalid_client: (False, "Token error 401: {...}")
C6_Witness ==
    \E call \in Answered :
        /\ call.reply = HttpReply(401, BodyInvalidClient)
        /\ ~call.result.ok
        /\ Contains(call.result.payload, <<"4", "0", "1">>)
        /\ Contains(call.result.payload, <<BodyInvalidClient>>)
        /\ access_token = call.result.payload

----------------------------------------------------------------------------
(* Properties of the cache around get_token *)

\* this step is a get_token call
MadeCall == Len(calls') = Len(calls) + 1

\* C2 as stated: a call whose triple has a stored result younger than ttl returns
\* that result and issues no POST; a call whose triple has a stored result that
\* is ttl old or older issues a fresh POST.
C2_Original ==
    [][MadeCall =>
        LET call == calls'[Len(calls')]
            k == call.args
        IN  k \in DOMAIN memo =>
                IF memo[k].age < ttl
                    THEN call.result = memo[k].value /\ ~call.posted
                    ELSE call.posted]_vars

\* C2 amended: a call whose triple has a stored result younger than ttl, not
\* pushed out of the cache by the max_entries bound since, returns that result
\* and issues no POST, whatever the result was; a call with three non-empty
\* fields whose stored result is ttl old or older issues a fresh POST.
C2_MemoisedWithinWindow ==
    [][MadeCall =>
        LET call == calls'[Len(calls')]
            k == call.args
        IN  k \in DOMAIN memo =>
                IF memo[k].age < ttl
                    THEN ~memo[k].evicted =>
                             call.result = memo[k].value /\ ~call.posted
                    ELSE ~SomeFieldEmpty(k) => call.posted]_vars

\* the operator's failed exchange, stored 59 seconds ago while the cache was
\* filling up, is returned again without a POST
C2_Witness ==
    /\ pc = "ready"
    /\ Len(cache) = max_entries
    /\ Len(calls) = 1
    /\ calls[1].args = Key(ValidTenant, ValidClient, ValidSecret)
    /\ ~calls[1].posted
    /\ ~calls[1].result.ok
    /\ memo[calls[1].args].age = ttl - 1
    /\ memo[calls[1].args].value = calls[1].result

----------------------------------------------------------------------------
(* Properties of try_endpoints and auth_get *)

InSuccessRange(st) == st \in 200..299

Answers2xx(i) == remote[i].kind = "http" /\ InSuccessRange(remote[i].status)

Raises(i) == remote[i].kind = "exception"

Some2xx == \E i \in DOMAIN remote : Answers2xx(i)

\* the first candidate, in list order, whose GET answers with a 2xx status
First2xx == CHOOSE i \in DOMAIN remote : Answers2xx(i) /\ \A j \in 1..(i - 1) : ~Answers2xx(j)

SomeStop == \E i \in DOMAIN remote : Answers2xx(i) \/ Raises(i)

\* the first candidate whose GET answers with a 2xx status or raises
FirstStop ==
    CHOOSE i \in DOMAIN remote :
        /\ Answers2xx(i) \/ Raises(i)
        /\ \A j \in 1..(i - 1) : ~(Answers2xx(j) \/ Raises(j))

\* a try_endpoints invocation has been made and is over
Finished == pc \in {"done", "aborted"}

\* what the function hands back for candidate i
Expected(i) ==
    LET js == ParseJson(remote[i].text)
    IN  [state |-> "found", label |-> endpoints[i][1], url |-> endpoints[i][2],
         data |-> IF js.type = "error"
                      THEN [type |-> "text", fields |-> <<>>, text |-> remote[i].text]
                      ELSE [type |-> js.type, fields |-> js.fields, text |-> ""]]

\* C3 as stated: whenever some candidate's GET answers 2xx, try_endpoints returns
\* the label, URL and decoded body of the first such candidate.
C3_Original ==
    /\ probe.state = "found" => Some2xx /\ probe = Expected(First2xx)
    /\ Finished /\ Some2xx => probe = Expected(First2xx)

\* C3 amended: whenever some candidate's GET answers 2xx and no candidate before
\* the first such one raises an exception, try_endpoints returns the label, URL
\* and decoded body of the first such candidate.
C3_FirstSuccessReturned ==
    /\ probe.state = "found" => Some2xx /\ probe = Expected(First2xx)
    /\ (Finished /\ Some2xx /\ \A j \in 1..(First2xx - 1) : ~Raises(j))
           => probe = Expected(First2xx)

\* statuses 404, 200, 2xx: the second candidate comes back, not the third
C3_Witness ==
    /\ pc = "done"
    /\ Len(endpoints) = 3
    /\ remote[1] = HttpReply(404, BodyHtml)
    /\ remote[2] = HttpReply(200, BodyCompanies)
    /\ Answers2xx(3)
    /\ probe.state = "found"
    /\ probe.label = endpoints[2][1]
    /\ probe.data.type = "object"

AllAnswerNon2xx ==
    \A i \in DOMAIN remote : remote[i].kind = "http" /\ ~InSuccessRange(remote[i].status)

\* C4: when every candidate's GET answers with a status outside [200,300), the
\* empty list included, try_endpoints runs to its end and returns nothing; it
\* raises no exception.
C4_ExhaustedReturnsNothing ==
    (probe.state # "none" /\ AllAnswerNon2xx) =>
        /\ pc # "aborted"
        /\ probe.state \in {"running", "absent"}
        /\ pc = "done" => probe.state = "absent" /\ Len(gets) = Len(endpoints)
        /\ pc \in {"loop", "get"} => ENABLED (AuthGetSend \/ AuthGetReply \/ LoopExit)

\* two candidates, 404 and 300: both requested, nothing returned
C4_Witness ==
    /\ pc = "done"
    /\ Len(endpoints) = 2
    /\ remote[1].status = 404 /\ remote[2].status = 300
    /\ probe.state = "absent"
    /\ Len(gets) = 2

\* the requests are the candidates in list order, each once, one at a time, and
\* none follows an answer in [200,300)
InOrderOneAtATime ==
    /\ Len(gets) <= Len(endpoints)
    /\ \A i \in DOMAIN gets : gets[i].cand = i /\ gets[i].url = endpoints[i][2]
    /\ \A i \in 1..(Len(gets) - 1) :
          gets[i].status # Pending /\ ~InSuccessRange(gets[i].status)

\* C8 as stated: the GETs of one invocation are the candidates of the prefix that
\* ends at the first candidate answering 2xx (the whole list when none does), in
\* list order, each once, each started after the previous one completed.
C8_Original ==
    /\ InOrderOneAtATime
    /\ Finished => Len(gets) = IF Some2xx THEN First2xx ELSE Len(endpoints)

\* C8 amended: the GETs of one invocation are the candidates of the prefix that
\* ends at the first candidate that answers 2xx or whose GET raises an exception
\* (the whole list when none does either), in list order, each once, each
\* started after the previous one completed.
C8_PrefixToFirstStop ==
    /\ InOrderOneAtATime
    /\ \A i \in 1..(Len(gets) - 1) : gets[i].status # RaisedStatus
    /\ Finished => Len(gets) = IF SomeStop THEN FirstStop ELSE Len(endpoints)

\* 404 then 299: two of three candidates requested, the third never
C8_Witness ==
    /\ pc = "done"
    /\ Len(endpoints) = 3
    /\ Len(gets) = 2
    /\ gets[1].status = 404
    /\ gets[2].status = 299
    /\ probe.state = "found"

----------------------------------------------------------------------------
(* Properties of the run as a whole *)

RaisedPost(call) == call.posted /\ call.reply.kind = "exception"

\* an exception of the token POST comes back as a result, and no POST follows it
PostExceptionCaught ==
    \A i \in DOMAIN calls :
        RaisedPost(calls[i]) =>
            /\ calls[i].result = Result(FALSE, <<"Token exception: ", calls[i].reply.text>>)
            /\ \A j \in (i + 1)..Len(calls) : ~calls[j].posted

\* C7 as stated: an exception of the token POST or of a resource GET is caught
\* and turned into an error result, never leaves get_token or try_endpoints, and
\* the failed call is not issued again.
C7_Original ==
    /\ PostExceptionCaught
    /\ probe.state # "raised"
    /\ pc # "aborted"
    /\ \A i \in DOMAIN gets : gets[i].status # RaisedStatus

\* C7 amended: an exception of the token POST is caught in get_token and comes
\* back as (False, "Token exception: ..."); an exception of a resource GET is not
\* caught, it leaves auth_get and try_endpoints and ends the run; in neither
\* case is the failed call issued again.
C7_PostCaughtGetPropagates ==
    /\ PostExceptionCaught
    /\ \A i \in DOMAIN gets :
          gets[i].status = RaisedStatus =>
              /\ i = Len(gets)
              /\ pc = "aborted"
              /\ probe.state = "raised"
    /\ pc = "aborted" => gets # <<>> /\ gets[Len(gets)].status = RaisedStatus

\* the button's POST raised and the silent refresh was served from the cache;
\* then a GET raised and ended the run
C7_Witness ==
    /\ pc = "aborted"
    /\ Len(calls) = 2
    /\ RaisedPost(calls[1])
    /\ ~calls[2].posted
    /\ Len(posts) = 1
    /\ access_token[1] = "Token exception: "
    /\ gets[Len(gets)].status = RaisedStatus

\* C9: every HTTP call, the token POST and every resource GET, is issued with the
\* timeout the user configured, which lies in 5..60.
C9_Claim ==
    /\ timeout_s \in timeout_min..timeout_max
    /\ \A i \in DOMAIN posts : posts[i].timeout = timeout_s
    /\ \A i \in DOMAIN gets : gets[i].timeout = timeout_s

\* C10: every GET carries a non-empty bearer value that a successful token
\* exchange for the current credentials returned.
C10_Claim ==
    \A i \in DOMAIN gets :
        LET k == Key(Strip(tenant_id), Strip(client_id), client_secret)
        IN  /\ gets[i].authorization # <<"Bearer ">>
            /\ k \in DOMAIN memo
            /\ memo[k].value.ok
            /\ gets[i].authorization = <<"Bearer ">> \o memo[k].value.payload

====
